---- MODULE Spec2Model ----
(***************************************************************************)
(* A model of src/src/compdb.ts: the registry of CompilationDatabase       *)
(* instances, loading and reloading of the compile-command index, and the  *)
(* cancellable compiler -> demangler pipeline of compile / runCompiler.    *)
(*                                                                         *)
(* JavaScript strings are sequences of one-character strings, so that the  *)
(* character scans of the source (splitWhitespace, String.replace) are     *)
(* computed and not assumed.  An optional value (a JSON field that may be  *)
(* absent, i.e. undefined) is a record [has, val].                         *)
(***************************************************************************)
EXTENDS Naturals, Sequences, FiniteSets, TLC

VARIABLES
    disk,       \* what the compile_commands.json file holds right now
    heap,       \* the CompileCommand objects allocated so far (a reference is an index)
    insts,      \* the CompilationDatabase objects constructed so far
    compdbs,    \* the static registry: a Map keyed by Uri OBJECT (reference) -> instance
    uris,       \* the Uri objects allocated so far: uris[u] is the path of object u
    calls,      \* the calls of CompilationDatabase.for
    loads,      \* the reloads started by the watcher's change signal
    handed,     \* the CompileCommand references returned to callers, with their value then
    runs,       \* the calls of compile: position, token, result
    procs,      \* the child processes of each run: procs[r].cxx, procs[r].cxxfilt
    uncaught,   \* the runs in which an exception escaped from an event callback
    argv        \* a direct call of one of the argument functions: its input and result

dbVars == <<disk, heap, insts, compdbs, uris, calls, loads, handed>>
runVars == <<runs, procs, uncaught>>
vars == <<disk, heap, insts, compdbs, uris, calls, loads, handed, runs, procs, uncaught, argv>>

----------------------------------------------------------------------------
(* Bounds of the model. *)

\* how many calls of CompilationDatabase.for are followed
MaxCalls == 2
\* how many change signals (reloads) are followed
MaxLoads == 2
\* how many calls of compile are followed
MaxRuns == 2
\* how many CompileCommand references callers of get keep
MaxHanded == 1
\* how long the command strings given to splitWhitespace are
MaxLen == 4
\* how many tokens the argument vectors given to constructCompileCommand have
MaxArgs == 3

----------------------------------------------------------------------------
(* Strings and optional values. *)

Some(v) == [has |-> TRUE, val |-> v]
None == [has |-> FALSE, val |-> <<>>]

\* str.slice(from, to) with 0-based offsets, 0 <= from
Slice(str, from, to) ==
    IF to <= from THEN <<>> ELSE SubSeq(str, from + 1, IF to > Len(str) THEN Len(str) ELSE to)

\* whether pat occurs in str at 0-based offset k
OccursAt(str, pat, k) ==
    /\ k + Len(pat) <= Len(str)
    /\ \A j \in 1..Len(pat) : str[k + j] = pat[j]

\* str.replace(pat, ""): the first occurrence of pat is removed
RemoveFirst(str, pat) ==
    LET hits == {k \in 0..Len(str) : OccursAt(str, pat, k)}
    IN  IF hits = {} THEN str
        ELSE LET k == CHOOSE h \in hits : \A g \in hits : h <= g
             IN  Slice(str, 0, k) \o Slice(str, k + Len(pat), Len(str))

\* the characters used
Slash == "/"
Space == " "
Backslash == "\\"
SingleQuote == "'"
DoubleQuote == "\""

\* the literal text "undefined" that JavaScript produces for undefined in a concatenation
UndefinedText == <<"u","n","d","e","f","i","n","e","d">>

cxxfiltExe == <<"c","+","+","f","i","l","t">>

----------------------------------------------------------------------------
(* splitWhitespace and constructCompileCommand. *)

\* one step of the character loop of splitWhitespace; quoteChar "" is undefined
RECURSIVE splitScan(_, _, _, _, _, _)
splitScan(str, i, strStart, quoteChar, shouldEscape, strs) ==
    IF i >= Len(str)
    THEN LET slice == Slice(str, strStart, i)
         IN  IF Len(slice) > 0 THEN Append(strs, slice) ELSE strs
    ELSE LET ch == str[i + 1]
         IN  CASE ch = Backslash ->
                    splitScan(str, i + 1, strStart, quoteChar, ~shouldEscape, strs)
               [] ch = SingleQuote ->
                    splitScan(str, i + 1, strStart,
                              IF shouldEscape THEN quoteChar
                              ELSE IF quoteChar = SingleQuote THEN "" ELSE SingleQuote,
                              shouldEscape, strs)
               [] ch = DoubleQuote ->
                    splitScan(str, i + 1, strStart,
                              IF shouldEscape THEN quoteChar
                              ELSE IF quoteChar = DoubleQuote THEN "" ELSE DoubleQuote,
                              shouldEscape, strs)
               [] ch = Space /\ quoteChar = "" ->
                    LET slice == Slice(str, strStart, i)
                    IN  splitScan(str, i + 1, i + 1, quoteChar, shouldEscape,
                                  IF Len(slice) > 0 THEN Append(strs, slice) ELSE strs)
               [] OTHER ->
                    splitScan(str, i + 1, strStart, quoteChar, shouldEscape, strs)

splitWhitespace(str) == splitScan(str, 0, 0, "", FALSE, <<>>)

DashO == <<"-","o">>
DashC == <<"-","c">>
DashG == <<"-","g">>

\* the stateful args.filter of constructCompileCommand (isOutfile is its flag)
RECURSIVE filterArgs(_, _)
filterArgs(args, isOutfile) ==
    IF args = <<>> THEN <<>>
    ELSE LET arg == Head(args)
         IN  IF ~isOutfile
             THEN IF arg = DashO THEN filterArgs(Tail(args), TRUE)
                  ELSE IF arg # DashC /\ arg # DashG
                       THEN <<arg>> \o filterArgs(Tail(args), FALSE)
                       ELSE filterArgs(Tail(args), FALSE)
             ELSE filterArgs(Tail(args), FALSE)

\* constructCompileCommand(command, args, directory); command and args are optional
\* values as JSON.parse leaves them.  The result is [threw, val]: command.length on an
\* absent command, and args[0] on absent args, throw a TypeError.
constructCompileCommand(command, args, directory) ==
    IF ~command.has THEN [threw |-> TRUE, val |-> <<>>]
    ELSE IF Len(command.val) = 0 /\ ~args.has THEN [threw |-> TRUE, val |-> <<>>]
    ELSE LET args1 == IF Len(command.val) > 0 THEN splitWhitespace(command.val) ELSE args.val
             first == IF args1 = <<>> THEN UndefinedText ELSE args1[1]
             args2 == <<directory \o <<Slash>> \o first>> \o
                      (IF args1 = <<>> THEN <<>> ELSE Tail(args1))
         IN  [threw |-> FALSE, val |-> filterArgs(args2, FALSE)]

\* no direct call of an argument function is followed
NoCall == [op |-> "none", pc |-> "none", command |-> None, arguments |-> None,
           directory |-> <<>>, file |-> <<>>, threw |-> FALSE, result |-> <<>>]

----------------------------------------------------------------------------
(* Paths, source files and the configuration. *)

\* the workspace folder opened in the editor, and the build directory it resolves to
WorkspaceFolder == <<"/","w">>
CompileCommandsJson ==
    <<"c","o","m","p","i","l","e","_","c","o","m","m","a","n","d","s",".","j","s","o","n">>

\* configuration 'compilerexplorer.compilationDirectory' at its default '${workspaceFolder}'
compilationDirectory ==
    <<"$","{","w","o","r","k","s","p","a","c","e","F","o","l","d","e","r","}">>

\* a source Uri: its fsPath and what workspace.getWorkspaceFolder finds for it
SrcA == [fsPath |-> <<"/","w","/","a",".","c">>, folder |-> Some(WorkspaceFolder)]
SrcB == [fsPath |-> <<"/","w","/","b",".","c">>, folder |-> Some(WorkspaceFolder)]
SrcX == [fsPath |-> <<"/","w","/","x",".","c">>, folder |-> Some(WorkspaceFolder)]
SrcOut == [fsPath |-> <<"/","o","/","a",".","c">>, folder |-> None]
Srcs == {SrcA, SrcB, SrcX, SrcOut}

\* the segments of a path between slashes
RECURSIVE segments(_, _)
segments(path, cur) ==
    IF path = <<>> THEN <<cur>>
    ELSE IF Head(path) = Slash THEN <<cur>> \o segments(Tail(path), <<>>)
    ELSE segments(Tail(path), Append(cur, Head(path)))

\* Path.normalize on the segments: '', '.' are dropped and '..' removes the segment before
RECURSIVE normalizeSegments(_, _)
normalizeSegments(segs, out) ==
    IF segs = <<>> THEN out
    ELSE LET s == Head(segs)
         IN  IF s = <<>> \/ s = <<".">> THEN normalizeSegments(Tail(segs), out)
             ELSE IF s = <<".", ".">>
                  THEN normalizeSegments(Tail(segs),
                          IF out = <<>> THEN out ELSE SubSeq(out, 1, Len(out) - 1))
                  ELSE normalizeSegments(Tail(segs), Append(out, s))

RECURSIVE joinSegments(_)
joinSegments(segs) ==
    IF segs = <<>> THEN <<>>
    ELSE IF Len(segs) = 1 THEN segs[1]
    ELSE segs[1] \o <<Slash>> \o joinSegments(Tail(segs))

\* Path.normalize of an absolute or relative POSIX path
normalize(path) ==
    LET isAbsolute == path # <<>> /\ path[1] = Slash
        trailing == path # <<>> /\ path[Len(path)] = Slash
        body == joinSegments(normalizeSegments(segments(path, <<>>), <<>>))
    IN  IF body = <<>> THEN (IF isAbsolute THEN <<Slash>> ELSE <<".">>)
        ELSE (IF isAbsolute THEN <<Slash>> ELSE <<>>) \o body \o
             (IF trailing THEN <<Slash>> ELSE <<>>)

\* Path.parse(p).name for a path without extension: what follows the last slash
RECURSIVE baseName(_)
baseName(path) ==
    IF \A j \in 1..Len(path) : path[j] # Slash THEN path
    ELSE baseName(Tail(path))

\* the table `variables` of resolvePath (relativeFile depends on the process's working
\* directory and is not used by the configured template; it is left out)
variables(name, path, workspacePath) ==
    CASE name = <<"w","o","r","k","s","p","a","c","e","F","o","l","d","e","r">> ->
            Some(workspacePath)
      [] name = <<"w","o","r","k","s","p","a","c","e","F","o","l","d","e","r",
                   "B","a","s","e","n","a","m","e">> ->
            Some(baseName(workspacePath))
      [] name = <<"f","i","l","e">> -> Some(path)
      [] name = <<"p","a","t","h","S","e","p","a","r","a","t","o","r">> -> Some(<<Slash>>)
      [] OTHER -> None

\* path.replace(/\$\{(.*?)\}/g, ...): every ${name} is replaced by its value when the
\* table has one, and left as it is otherwise
RECURSIVE substitute(_, _, _)
substitute(rest, path, workspacePath) ==
    IF rest = <<>> THEN <<>>
    ELSE LET closes == {k \in 3..Len(rest) : rest[k] = "}"}
         IN  IF Len(rest) >= 3 /\ rest[1] = "$" /\ rest[2] = "{" /\ closes # {}
             THEN LET k == CHOOSE c \in closes : \A d \in closes : c <= d
                      value == variables(SubSeq(rest, 3, k - 1), path, workspacePath)
                  IN  (IF value.has THEN value.val ELSE SubSeq(rest, 1, k)) \o
                      substitute(SubSeq(rest, k + 1, Len(rest)), path, workspacePath)
             ELSE <<Head(rest)>> \o substitute(Tail(rest), path, workspacePath)

\* resolvePath(path, srcUri): [threw, val].  Path.parse(workspacePath) throws a
\* TypeError when srcUri lies in no workspace folder (workspacePath is undefined).
resolvePath(path, srcUri) ==
    IF ~srcUri.folder.has THEN [threw |-> TRUE, val |-> <<>>]
    ELSE [threw |-> FALSE, val |-> normalize(substitute(path, path, srcUri.folder.val))]

----------------------------------------------------------------------------
(* The database file and CompilationDatabase.load. *)

\* entries of a compile_commands.json as JSON.parse returns them
RawEntry(directory, command, file, arguments) ==
    [directory |-> directory, command |-> command, file |-> file, arguments |-> arguments]

DirB == <<"/","b">>
FileA == <<"a",".","c">>
FileB == <<"b",".","c">>

\* "cc -c a.c -o a.o"
EntryA1 == RawEntry(DirB,
    Some(<<"c","c"," ","-","c"," ","a",".","c"," ","-","o"," ","a",".","o">>), FileA, None)
\* "cc -g b.c"
EntryB1 == RawEntry(DirB, Some(<<"c","c"," ","-","g"," ","b",".","c">>), FileB, None)
\* "cc -O a.c"
EntryA2 == RawEntry(DirB, Some(<<"c","c"," ","-","O"," ","a",".","c">>), FileA, None)

\* what the file can hold: a JSON array of entries, or something load cannot use
\* (the state holds the name of a content, FileContent gives what it stands for)
Contents == {"V1", "V2", "unreadable", "invalidJson", "notArray"}

FileContent(name) ==
    CASE name = "V1" -> [kind |-> "array", entries |-> <<EntryA1, EntryB1>>]
      [] name = "V2" -> [kind |-> "array", entries |-> <<EntryA2>>]
      [] OTHER -> [kind |-> name, entries |-> <<>>]

\* preprocess of one entry: [threw, val]
preprocess(ccommand) ==
    LET made == constructCompileCommand(ccommand.command, ccommand.arguments,
                                        ccommand.directory)
    IN  IF made.threw THEN [threw |-> TRUE, val |-> ccommand]
        ELSE [threw |-> FALSE,
              val |-> [directory |-> ccommand.directory,
                       command |-> <<>>,
                       file |-> ccommand.file,
                       arguments |-> SelectSeq(made.val, LAMBDA arg : arg # ccommand.file)]]

\* load(compileCommandsFile) on what readFile returned: [ok, objs, index].  objs are the
\* fresh CompileCommand objects, index maps a file key to the position in objs of the
\* entry that set it last; base is the number of objects allocated before.
load(name, base) ==
    LET content == FileContent(name)
        n == Len(content.entries)
        done == [j \in 1..n |-> preprocess(content.entries[j])]
        keys == {content.entries[j].file : j \in 1..n}
        last(k) == CHOOSE j \in 1..n :
                      /\ content.entries[j].file = k
                      /\ \A h \in 1..n : content.entries[h].file = k => h <= j
    IN  IF content.kind # "array" \/ \E j \in 1..n : done[j].threw
        THEN [ok |-> FALSE, objs |-> <<>>, index |-> <<>>]
        ELSE [ok |-> TRUE,
              objs |-> [j \in 1..n |-> done[j].val],
              index |-> [k \in keys |-> base + last(k)]]

\* Map.get on a Map whose keys are objects: SameValueZero compares references
MapGet(map, key) == IF key \in DOMAIN map THEN map[key] ELSE 0

MapSet(map, key, value) == [k \in DOMAIN map \cup {key} |-> IF k = key THEN value ELSE map[k]]

MapDelete(map, key) == [k \in DOMAIN map \ {key} |-> map[k]]

\* the body of CompilationDatabase.get(srcUri) on the index `commands`:
\* [threw, found, ref]
lookup(commands, srcUri) ==
    LET buildDirectory == resolvePath(compilationDirectory, srcUri)
        relativeFp == RemoveFirst(srcUri.fsPath, buildDirectory.val \o <<Slash>>)
    IN  IF buildDirectory.threw THEN [threw |-> TRUE, found |-> FALSE, ref |-> 0]
        ELSE IF relativeFp \in DOMAIN commands
             THEN [threw |-> FALSE, found |-> TRUE, ref |-> commands[relativeFp]]
             ELSE [threw |-> FALSE, found |-> FALSE, ref |-> 0]

\* CompilationDatabase.get(srcUri) on instance i
get(i, srcUri) == lookup(insts[i].commands, srcUri)

----------------------------------------------------------------------------
(* CompilationDatabase objects: construction, the watcher's signals, dispose. *)

Calls == 1..MaxCalls
Runs == 1..MaxRuns

IdleCall == [pc |-> "idle", uri |-> 0, content |-> "unreadable", inst |-> 0]

\* new CompilationDatabase(compileCommandsFile, commands): the fields after the constructor
NewInstance(compileCommandsFile, commands) ==
    [compileCommandsFile |-> compileCommandsFile,
     commands |-> commands,
     watcher |-> "watching",
     compileCancellationTokenSource |-> 0,
     cxxFiltExeCache |-> <<>>]

\* workspace.fs.readFile of the file behind Uri object u
readFile(u) == IF uris[u] \in DOMAIN disk THEN disk[uris[u]] ELSE "unreadable"

\* CompilationDatabase.for(srcUri) up to `await CompilationDatabase.load(...)`: the Uri
\* built by Uri.joinPath is a new object, and the registry is asked for that object
ForStart(c, srcUri) ==
    /\ calls[c].pc = "idle"
    /\ IF c = 1 THEN TRUE ELSE calls[c - 1].pc # "idle"
    /\ LET buildDirectory == resolvePath(compilationDirectory, srcUri)
           u == Len(uris) + 1
           compdb == MapGet(compdbs, u)
       IN  IF buildDirectory.threw
           THEN /\ calls' = [calls EXCEPT ![c].pc = "thrown"]
                /\ uris' = uris
           ELSE /\ uris' = Append(uris, buildDirectory.val \o <<Slash>> \o CompileCommandsJson)
                /\ calls' = IF compdb # 0
                            THEN [calls EXCEPT ![c] = [@ EXCEPT !.pc = "returned",
                                                              !.uri = u, !.inst = compdb]]
                            ELSE [calls EXCEPT ![c] = [@ EXCEPT !.pc = "loading", !.uri = u]]
    /\ UNCHANGED <<argv, disk, heap, insts, compdbs, loads, handed, runVars>>

\* the readFile of load, awaited by for, completes with what the file holds then
ForRead(c) ==
    /\ calls[c].pc = "loading"
    /\ calls' = [calls EXCEPT ![c] = [@ EXCEPT !.pc = "read", !.content = readFile(calls[c].uri)]]
    /\ UNCHANGED <<argv, disk, heap, insts, compdbs, uris, loads, handed, runVars>>

\* the rest of for: load parses and indexes; the instance is constructed and registered
ForLoaded(c) ==
    /\ calls[c].pc = "read"
    /\ LET loaded == load(calls[c].content, Len(heap))
           i == Len(insts) + 1
       IN  IF ~loaded.ok
           THEN /\ calls' = [calls EXCEPT ![c].pc = "thrown"]
                /\ UNCHANGED <<heap, insts, compdbs>>
           ELSE /\ heap' = heap \o loaded.objs
                /\ insts' = Append(insts, NewInstance(calls[c].uri, loaded.index))
                /\ compdbs' = MapSet(compdbs, calls[c].uri, i)
                /\ calls' = [calls EXCEPT ![c] = [@ EXCEPT !.pc = "returned", !.inst = i]]
    /\ UNCHANGED <<argv, disk, uris, loads, handed, runVars>>

\* the file is edited, replaced or removed on disk
DiskWrite(path, content) ==
    /\ path \in DOMAIN disk
    /\ disk[path] # content
    /\ disk' = [disk EXCEPT ![path] = content]
    /\ UNCHANGED <<argv, heap, insts, compdbs, uris, calls, loads, handed, runVars>>

\* watcher.onDidChange: the closure `load` of the constructor starts reading
ChangeSignal(i) ==
    /\ i \in 1..Len(insts)
    /\ insts[i].watcher = "watching"
    /\ Len(loads) < MaxLoads
    /\ loads' = Append(loads, [inst |-> i, pc |-> "loading", content |-> "unreadable"])
    /\ UNCHANGED <<argv, disk, heap, insts, compdbs, uris, calls, handed, runVars>>

ReloadRead(l) ==
    /\ l \in 1..Len(loads)
    /\ loads[l].pc = "loading"
    /\ loads' = [loads EXCEPT ![l] = [@ EXCEPT !.pc = "read",
                     !.content = readFile(insts[loads[l].inst].compileCommandsFile)]]
    /\ UNCHANGED <<argv, disk, heap, insts, compdbs, uris, calls, handed, runVars>>

\* ReloadDone with the new index merged into the old one (old keys survive)
ReloadDone_merge(l) ==
    /\ l \in 1..Len(loads)
    /\ loads[l].pc = "read"
    /\ LET loaded == load(loads[l].content, Len(heap))
           i == loads[l].inst
           old == insts[i].commands
       IN  IF ~loaded.ok
           THEN /\ loads' = [loads EXCEPT ![l].pc = "failed"]
                /\ UNCHANGED <<heap, insts>>
           ELSE /\ heap' = heap \o loaded.objs
                /\ insts' = [insts EXCEPT ![i].commands =
                                [k \in DOMAIN old \cup DOMAIN loaded.index |->
                                    IF k \in DOMAIN loaded.index THEN loaded.index[k]
                                    ELSE old[k]]]
                /\ loads' = [loads EXCEPT ![l].pc = "done"]
    /\ UNCHANGED <<argv, disk, compdbs, uris, calls, handed, runVars>>

\* ReloadDone with the index emptied when load throws
ReloadDone_clear(l) ==
    /\ l \in 1..Len(loads)
    /\ loads[l].pc = "read"
    /\ LET loaded == load(loads[l].content, Len(heap))
           i == loads[l].inst
       IN  IF ~loaded.ok
           THEN /\ loads' = [loads EXCEPT ![l].pc = "failed"]
                /\ insts' = [insts EXCEPT ![i].commands = <<>>]
                /\ heap' = heap
           ELSE /\ heap' = heap \o loaded.objs
                /\ insts' = [insts EXCEPT ![i].commands = loaded.index]
                /\ loads' = [loads EXCEPT ![l].pc = "done"]
    /\ UNCHANGED <<argv, disk, compdbs, uris, calls, handed, runVars>>

\* `this.commands = await CompilationDatabase.load(...)`: the assignment happens only
\* when load returns; when it throws the promise of the handler is rejected
ReloadDone(l) ==
    /\ l \in 1..Len(loads)
    /\ loads[l].pc = "read"
    /\ LET loaded == load(loads[l].content, Len(heap))
           i == loads[l].inst
       IN  IF ~loaded.ok
           THEN /\ loads' = [loads EXCEPT ![l].pc = "failed"]
                /\ UNCHANGED <<heap, insts>>
           ELSE /\ heap' = heap \o loaded.objs
                /\ insts' = [insts EXCEPT ![i].commands = loaded.index]
                /\ loads' = [loads EXCEPT ![l].pc = "done"]
    /\ UNCHANGED <<argv, disk, compdbs, uris, calls, handed, runVars>>

\* CancellationTokenSource.cancel() of the source created by run r (0: undefined?.cancel())
cancel(rs, r) == IF r = 0 THEN rs ELSE [rs EXCEPT ![r].cancelled = TRUE]

\* dispose(): the fields of instance `inst` afterwards
disposed(inst) == [inst EXCEPT !.commands = <<>>, !.watcher = "disposed"]

\* watcher.onDidDelete of instance i
DeleteSignal(i) ==
    /\ i \in 1..Len(insts)
    /\ insts[i].watcher = "watching"
    /\ LET compdb == MapGet(compdbs, insts[i].compileCommandsFile)
       IN  /\ insts' = IF compdb = 0 THEN insts ELSE [insts EXCEPT ![compdb] = disposed(@)]
           /\ runs' = IF compdb = 0 THEN runs
                      ELSE cancel(runs, insts[compdb].compileCancellationTokenSource)
    /\ compdbs' = MapDelete(compdbs, insts[i].compileCommandsFile)
    /\ UNCHANGED <<argv, disk, heap, uris, calls, loads, handed, procs, uncaught>>

\* the runs whose token source some registered instance holds
RegisteredSources ==
    {insts[compdbs[u]].compileCancellationTokenSource : u \in DOMAIN compdbs} \ {0}

\* the Disposable of CompilationDatabase.disposable(): dispose() on every registered instance
DisposeAll ==
    /\ \E u \in DOMAIN compdbs : insts[compdbs[u]].watcher = "watching"
    /\ insts' = [i \in 1..Len(insts) |->
                    IF \E u \in DOMAIN compdbs : compdbs[u] = i THEN disposed(insts[i])
                    ELSE insts[i]]
    /\ runs' = [r \in Runs |-> IF r \in RegisteredSources
                               THEN [runs[r] EXCEPT !.cancelled = TRUE] ELSE runs[r]]
    /\ UNCHANGED <<argv, disk, heap, compdbs, uris, calls, loads, handed, procs, uncaught>>

\* a caller looks a source file up and keeps the CompileCommand it gets
Get(i, srcUri) ==
    /\ i \in 1..Len(insts)
    /\ LET got == get(i, srcUri)
       IN  /\ got.found
           /\ [ref |-> got.ref, val |-> heap[got.ref]] \notin handed
           /\ Cardinality(handed) < MaxHanded
           /\ handed' = handed \cup {[ref |-> got.ref, val |-> heap[got.ref]]}
    /\ UNCHANGED <<argv, disk, heap, insts, compdbs, uris, calls, loads, runVars>>

----------------------------------------------------------------------------
(* compile and runCompiler. *)

\* a call of compile.  cancelled is isCancellationRequested of the token of its own
\* CancellationTokenSource; asm is whether the text collected from cxxfilt.stdout is
\* non-empty (its content is not followed); superseded is history, written once and never read by an
\* action: the runs that were in flight on the same instance when this one began.
IdleRun ==
    [pc |-> "idle", inst |-> 0, src |-> SrcA, ccommand |-> 0, cancelled |-> FALSE,
     err |-> "", asm |-> FALSE, sawStderr |-> FALSE, superseded |-> {}]

NoProcs == [cxx |-> "none", cxxfilt |-> "none", stdin |-> "none"]

\* the sources compile is called with
CompileSrcs == {SrcA, SrcX, SrcOut}

\* what the directory of the compiler holds when findCxxFiltExe lists it
FsCases == {"listed", "empty", "unlistable"}

\* Path.parse(p).dir: what precedes the last slash
parseDir(path) ==
    LET slashes == {j \in 1..Len(path) : path[j] = Slash}
    IN  IF slashes = {} THEN <<>>
        ELSE LET k == CHOOSE j \in slashes : \A h \in slashes : h <= j
             IN  IF k = 1 THEN <<Slash>> ELSE SubSeq(path, 1, k - 1)

\* findCxxFiltExe(compExe) for a compiler path with a directory: [threw, val].
\* fs.readdir rejects when the directory cannot be listed; a file of the listing whose
\* name ends with c++filt is resolved against the directory; otherwise the guessed path
\* does not exist either and the bare name is returned.
findCxxFiltExe(compExe, fsCase) ==
    CASE fsCase = "unlistable" -> [threw |-> TRUE, val |-> <<>>]
      [] fsCase = "listed" ->
            [threw |-> FALSE, val |-> normalize(parseDir(compExe) \o <<Slash>> \o cxxfiltExe)]
      [] OTHER -> [threw |-> FALSE, val |-> cxxfiltExe]

\* child.kill(): a signal is sent only to a process that has not ended
kill(status) == IF status = "running" THEN "killed" ELSE status

\* the `finally` of compile on instance i
finally(is, i) == [is EXCEPT ![i].compileCancellationTokenSource = 0]

\* the catch of runCompiler without its cxxfilt.kill()
caught_cxxOnly(ps, r) == [ps EXCEPT ![r].cxx = kill(@)]

\* the catch of runCompiler (both children are killed, the error is thrown again), as
\* the procs of run r afterwards
caught(ps, r) == [ps EXCEPT ![r].cxx = kill(@), ![r].cxxfilt = kill(@)]

\* run r ends with error err thrown inside the try of runCompiler
Throw(r, err) ==
    /\ runs' = [runs EXCEPT ![r].pc = "thrown", ![r].err = err]
    /\ procs' = caught(procs, r)
    /\ insts' = finally(insts, runs[r].inst)

\* compile(src, customCommand) up to the first await of runCompiler (getCxxFiltExe)
CompileStart(r, i, srcUri) ==
    /\ runs[r].pc = "idle"
    /\ IF r = 1 THEN TRUE ELSE runs[r - 1].pc # "idle"
    /\ i \in 1..Len(insts)
    /\ LET ccommand == get(i, srcUri)
           started == [runs[r] EXCEPT !.inst = i, !.src = srcUri]
           inFlight == {a \in Runs : runs[a].inst = i /\
                           runs[a].pc \notin {"idle", "returned", "thrown"}}
       IN  IF ccommand.threw
           THEN /\ runs' = [runs EXCEPT ![r] = [started EXCEPT !.pc = "thrown",
                                                               !.err = "TypeError"]]
                /\ UNCHANGED <<insts, handed>>
           ELSE IF ~ccommand.found
           THEN /\ runs' = [runs EXCEPT ![r] = [started EXCEPT !.pc = "thrown",
                                                               !.err = "NotFound"]]
                /\ UNCHANGED <<insts, handed>>
           ELSE /\ runs' = [cancel(runs, insts[i].compileCancellationTokenSource)
                               EXCEPT ![r] = [started EXCEPT !.pc = "locate",
                                                             !.ccommand = ccommand.ref,
                                                             !.superseded = inFlight]]
                /\ insts' = [insts EXCEPT ![i].compileCancellationTokenSource = r]
                /\ handed' = handed \cup {[ref |-> ccommand.ref, val |-> heap[ccommand.ref]]}
    /\ UNCHANGED <<argv, disk, heap, compdbs, uris, calls, loads, procs, uncaught>>

\* getCxxFiltExe resolves (from the cache, or by findCxxFiltExe), and both children are
\* spawned; no token is looked at here
LocateDone(r, fsCase) ==
    /\ runs[r].pc = "locate"
    /\ LET i == runs[r].inst
           compExe == heap[runs[r].ccommand].arguments[1]
           cache == insts[i].cxxFiltExeCache
           located == IF compExe \in DOMAIN cache
                      THEN [threw |-> FALSE, val |-> cache[compExe]]
                      ELSE findCxxFiltExe(compExe, fsCase)
       IN  IF located.threw
           THEN /\ runs' = [runs EXCEPT ![r].pc = "thrown", ![r].err = "readdir"]
                /\ insts' = finally(insts, i)
                /\ procs' = procs
           ELSE /\ runs' = [runs EXCEPT ![r].pc = "relay"]
                /\ insts' = [insts EXCEPT ![i].cxxFiltExeCache = MapSet(cache, compExe, located.val)]
                /\ procs' = [procs EXCEPT ![r] = [cxx |-> "running", cxxfilt |-> "running",
                                                  stdin |-> "corked"]]
    /\ UNCHANGED <<argv, disk, heap, compdbs, uris, calls, loads, handed, uncaught>>

\* one chunk of cxx.stdout reaches the first for-await loop
RelayChunk(r) ==
    /\ runs[r].pc = "relay"
    /\ IF runs[r].cancelled
       THEN Throw(r, "cancelled")
       ELSE UNCHANGED <<runs, procs, insts>>
    /\ UNCHANGED <<argv, disk, heap, compdbs, uris, calls, loads, handed, uncaught>>

\* RelayEnd without cxxfilt.stdin.end()
RelayEnd_open(r) ==
    /\ runs[r].pc = "relay"
    /\ runs' = [runs EXCEPT ![r].pc = "cxxErr"]
    /\ procs' = [procs EXCEPT ![r].stdin = "uncorked"]
    /\ UNCHANGED <<argv, dbVars, uncaught>>

\* cxx.stdout ends: uncork, stdin.end(), and checkStdErr(cxx) starts reading cxx.stderr
RelayEnd(r) ==
    /\ runs[r].pc = "relay"
    /\ runs' = [runs EXCEPT ![r].pc = "cxxErr"]
    /\ procs' = [procs EXCEPT ![r].stdin = "ended"]
    /\ UNCHANGED <<argv, dbVars, uncaught>>

\* a chunk of the stderr that checkStdErr is reading
StderrChunk(r) ==
    /\ runs[r].pc \in {"cxxErr", "filtErr"}
    /\ ~runs[r].sawStderr
    /\ runs' = [runs EXCEPT ![r].sawStderr = TRUE]
    /\ UNCHANGED <<argv, dbVars, procs, uncaught>>

\* the stderr ends: checkStdErr shows what it collected and awaits onExit(process),
\* which adds its 'exit' and 'error' listeners now
StderrEnd(r) ==
    /\ runs[r].pc \in {"cxxErr", "filtErr"}
    /\ runs' = [runs EXCEPT ![r].pc = IF @ = "cxxErr" THEN "cxxExit" ELSE "filtExit"]
    /\ UNCHANGED <<argv, dbVars, procs, uncaught>>

\* one chunk of cxxfilt.stdout reaches the second for-await loop
FiltChunk(r) ==
    /\ runs[r].pc = "filtOut"
    /\ IF runs[r].cancelled
       THEN Throw(r, "cancelled")
       ELSE /\ runs' = [runs EXCEPT ![r].asm = TRUE]
            /\ UNCHANGED <<procs, insts>>
    /\ UNCHANGED <<argv, disk, heap, compdbs, uris, calls, loads, handed, uncaught>>

\* cxxfilt.stdout ends: checkStdErr(cxxfilt) starts reading cxxfilt.stderr
FiltEnd(r) ==
    /\ runs[r].pc = "filtOut"
    /\ runs' = [runs EXCEPT ![r].pc = "filtErr"]
    /\ UNCHANGED <<argv, dbVars, procs, uncaught>>

\* the stream a for-await loop is reading fails: the loop throws
StreamError(r) ==
    /\ runs[r].pc \in {"relay", "cxxErr", "filtOut", "filtErr"}
    /\ Throw(r, "stream")
    /\ UNCHANGED <<argv, disk, heap, compdbs, uris, calls, loads, handed, uncaught>>

\* whether onExit's listeners for child p of run r are registered
Listening(r, p) ==
    \/ p = "cxx" /\ runs[r].pc = "cxxExit"
    \/ p = "cxxfilt" /\ runs[r].pc = "filtExit"

\* onExit resolves with `code` and checkStdErr answers !code: the exit code of a
\* process ended by a signal is null
checkStdErr(how) == how # "exitN"

\* child p of run r ends (exit code 0, another exit code, or a signal): 'exit' is
\* emitted once, to the listeners registered at that moment
ProcExit(r, p, how) ==
    /\ procs[r][p] = "running"
    /\ IF ~Listening(r, p)
       THEN /\ procs' = [procs EXCEPT ![r][p] = "unheard"]
            /\ UNCHANGED <<runs, insts>>
       ELSE IF ~checkStdErr(how)
       THEN /\ runs' = [runs EXCEPT ![r].pc = "thrown", ![r].err = "failed"]
            /\ procs' = caught([procs EXCEPT ![r][p] = how], r)
            /\ insts' = finally(insts, runs[r].inst)
       ELSE IF p = "cxx"
       THEN /\ runs' = [runs EXCEPT ![r].pc = "filtOut"]
            /\ procs' = [procs EXCEPT ![r][p] = how]
            /\ insts' = insts
       ELSE /\ runs' = [runs EXCEPT ![r].pc = "returned"]
            /\ procs' = [procs EXCEPT ![r][p] = how]
            /\ insts' = finally(insts, runs[r].inst)
    /\ UNCHANGED <<argv, disk, heap, compdbs, uris, calls, loads, handed, uncaught>>

\* child p of run r emits 'error' (it could not be spawned).  The listener of cxx added
\* at spawn throws inside the emitter, before onExit's listener is reached; cxxfilt has
\* no listener but onExit's, and an 'error' nobody listens to is thrown by the emitter.
ProcError(r, p) ==
    /\ procs[r][p] = "running"
    /\ IF p = "cxxfilt" /\ Listening(r, p)
       THEN /\ runs' = [runs EXCEPT ![r].pc = "thrown", ![r].err = "failed"]
            /\ procs' = caught([procs EXCEPT ![r][p] = "error"], r)
            /\ insts' = finally(insts, runs[r].inst)
            /\ uncaught' = uncaught
       ELSE /\ procs' = [procs EXCEPT ![r][p] = "error"]
            /\ uncaught' = uncaught \cup {r}
            /\ UNCHANGED <<runs, insts>>
    /\ UNCHANGED <<argv, disk, heap, compdbs, uris, calls, loads, handed>>

InFlight(r) == runs[r].pc \notin {"idle", "returned", "thrown"}

\* the user cancels the progress notification of run r: ctokSource.cancel()
UserCancel(r) ==
    /\ InFlight(r)
    /\ ~runs[r].cancelled
    /\ runs' = cancel(runs, r)
    /\ UNCHANGED <<argv, dbVars, procs, uncaught>>

----------------------------------------------------------------------------
(* Direct calls of splitWhitespace, constructCompileCommand and preprocess. *)

\* the characters of the command strings: a letter, and every character the scan of
\* splitWhitespace has a case for
Alphabet == {"a", Space, SingleQuote, DoubleQuote, Backslash}

\* "gcc -O2 'foo bar.cpp' -o out"
QuotedCommand ==
    <<"g","c","c"," ","-","O","2"," ","'","f","o","o"," ","b","a","r",".","c","p","p","'",
      " ","-","o"," ","o","u","t">>

\* "cc -c a.c -o a.o"
PlainCommand == <<"c","c"," ","-","c"," ","a",".","c"," ","-","o"," ","a",".","o">>

CommandStrings == UNION {[1..n -> Alphabet] : n \in 0..MaxLen} \cup {QuotedCommand, PlainCommand}

Cc == <<"c","c">>
Tokens == {Cc, DashC, DashG, DashO, FileA}

\* ["gcc", "-c", "a.cpp", "-g", "-o", "a.o"]
GccVector ==
    <<<<"g","c","c">>, DashC, <<"a",".","c","p","p">>, DashG, DashO, <<"a",".","o">>>>

ArgVectors == UNION {[1..n -> Tokens] : n \in 0..MaxArgs} \cup {GccVector}

\* the calls followed: splitWhitespace(str), constructCompileCommand(command, args,
\* directory) with both values given, and preprocess of one entry of the file, in which
\* JSON.parse leaves a field that is not written absent
ArgvCalls ==
    {[NoCall EXCEPT !.op = "splitWhitespace", !.pc = "called", !.command = Some(str)] :
        str \in CommandStrings}
    \cup
    {[NoCall EXCEPT !.op = "constructCompileCommand", !.pc = "called",
                    !.command = Some(command), !.arguments = Some(args), !.directory = DirB] :
        command \in {<<>>, PlainCommand}, args \in ArgVectors}
    \cup
    {[NoCall EXCEPT !.op = "preprocess", !.pc = "called", !.command = command,
                    !.arguments = args, !.directory = DirB, !.file = FileA] :
        command \in {None, Some(<<>>), Some(PlainCommand)},
        args \in {None} \cup {Some(v) : v \in {<<>>, <<Cc, DashC, FileA>>, <<Cc, FileA, DashO>>}}}

\* splitWhitespace(str) returns
SplitCall ==
    /\ argv.op = "splitWhitespace"
    /\ argv.pc = "called"
    /\ argv' = [argv EXCEPT !.pc = "returned", !.result = splitWhitespace(argv.command.val)]
    /\ UNCHANGED <<dbVars, runVars>>

\* constructCompileCommand(command, args, directory) returns or throws
ConstructCall ==
    /\ argv.op = "constructCompileCommand"
    /\ argv.pc = "called"
    /\ LET made == constructCompileCommand(argv.command, argv.arguments, argv.directory)
       IN  argv' = [argv EXCEPT !.pc = IF made.threw THEN "thrown" ELSE "returned",
                                !.threw = made.threw, !.result = made.val]
    /\ UNCHANGED <<dbVars, runVars>>

\* the body of the loop of preprocess on one entry: result is its arguments afterwards
PreprocessCall ==
    /\ argv.op = "preprocess"
    /\ argv.pc = "called"
    /\ LET done == preprocess(RawEntry(argv.directory, argv.command, argv.file,
                                       argv.arguments))
       IN  argv' = [argv EXCEPT !.pc = IF done.threw THEN "thrown" ELSE "returned",
                                !.threw = done.threw,
                                !.result = IF done.threw THEN <<>> ELSE done.val.arguments]
    /\ UNCHANGED <<dbVars, runVars>>

\* the flags of the scan of splitWhitespace after the first n characters of str
RECURSIVE scanFlags(_, _)
scanFlags(str, n) ==
    IF n = 0 THEN [quoteChar |-> "", shouldEscape |-> FALSE]
    ELSE LET before == scanFlags(str, n - 1)
             ch == str[n]
         IN  CASE ch = Backslash -> [before EXCEPT !.shouldEscape = ~@]
               [] ch \in {SingleQuote, DoubleQuote} /\ ~before.shouldEscape ->
                    [before EXCEPT !.quoteChar = IF @ = ch THEN "" ELSE ch]
               [] OTHER -> before

----------------------------------------------------------------------------
(* Specifications. *)

DbPath == WorkspaceFolder \o <<Slash>> \o CompileCommandsJson

\* nothing has been opened yet
InitDb ==
    /\ disk = [p \in {DbPath} |-> "V1"]
    /\ heap = <<>>
    /\ insts = <<>>
    /\ compdbs = <<>>
    /\ uris = <<>>
    /\ calls = [c \in Calls |-> IdleCall]
    /\ loads = <<>>
    /\ handed = {}
    /\ runs = [r \in Runs |-> IdleRun]
    /\ procs = [r \in Runs |-> NoProcs]
    /\ uncaught = {}
    /\ argv = NoCall

\* one database has been opened by CompilationDatabase.for and no compile has started
Init ==
    /\ disk = [p \in {DbPath} |-> "V1"]
    /\ heap = load("V1", 0).objs
    /\ uris = <<DbPath>>
    /\ insts = <<NewInstance(1, load("V1", 0).index)>>
    /\ compdbs = MapSet(<<>>, 1, 1)
    /\ calls = [c \in Calls |-> IF c = 1 THEN [IdleCall EXCEPT !.pc = "returned", !.uri = 1,
                                                      !.content = "V1", !.inst = 1]
                                ELSE IdleCall]
    /\ loads = <<>>
    /\ handed = {}
    /\ runs = [r \in Runs |-> IdleRun]
    /\ procs = [r \in Runs |-> NoProcs]
    /\ uncaught = {}
    /\ argv = NoCall

\* the pipeline: compile requests on the databases that are open
Next ==
    \/ \E r \in Runs, i \in 1..Len(insts), s \in CompileSrcs : CompileStart(r, i, s)
    \/ \E r \in Runs, f \in FsCases : LocateDone(r, f)
    \/ \E r \in Runs : RelayChunk(r)
    \/ \E r \in Runs : RelayEnd(r)
    \/ \E r \in Runs : StderrChunk(r)
    \/ \E r \in Runs : StderrEnd(r)
    \/ \E r \in Runs : FiltChunk(r)
    \/ \E r \in Runs : FiltEnd(r)
    \/ \E r \in Runs : StreamError(r)
    \/ \E r \in Runs, p \in {"cxx", "cxxfilt"}, how \in {"exit0", "exitN", "signal"} :
          ProcExit(r, p, how)
    \/ \E r \in Runs, p \in {"cxx", "cxxfilt"} : ProcError(r, p)
    \/ \E r \in Runs : UserCancel(r)
    \/ \E i \in 1..Len(insts) : DeleteSignal(i)
    \/ DisposeAll

Spec == Init /\ [][Next]_vars

\* the registry: databases are opened, looked up and retired
NextDb ==
    \/ \E c \in Calls, s \in Srcs : ForStart(c, s)
    \/ \E c \in Calls : ForRead(c)
    \/ \E c \in Calls : ForLoaded(c)
    \/ \E content \in Contents : DiskWrite(DbPath, content)
    \/ \E i \in 1..Len(insts) : DeleteSignal(i)
    \/ DisposeAll
    \/ \E i \in 1..Len(insts), s \in Srcs : Get(i, s)

SpecDb == InitDb /\ [][NextDb]_vars

\* one open database: the file changes on disk and the watcher's signals arrive
NextReload ==
    \/ \E content \in Contents : DiskWrite(DbPath, content)
    \/ \E i \in 1..Len(insts) : ChangeSignal(i)
    \/ \E l \in 1..Len(loads) : ReloadRead(l)
    \/ \E l \in 1..Len(loads) : ReloadDone(l)
    \/ \E i \in 1..Len(insts) : DeleteSignal(i)
    \/ DisposeAll
    \/ \E i \in 1..Len(insts), s \in Srcs : Get(i, s)

SpecReload == Init /\ [][NextReload]_vars

\* one direct call of an argument function, on any of the inputs
InitArgv ==
    /\ disk = [p \in {DbPath} |-> "V1"]
    /\ heap = <<>>
    /\ insts = <<>>
    /\ compdbs = <<>>
    /\ uris = <<>>
    /\ calls = [c \in Calls |-> IdleCall]
    /\ loads = <<>>
    /\ handed = {}
    /\ runs = [r \in Runs |-> IdleRun]
    /\ procs = [r \in Runs |-> NoProcs]
    /\ uncaught = {}
    /\ argv \in ArgvCalls

NextArgv ==
    \/ SplitCall
    \/ ConstructCall
    \/ PreprocessCall

SpecArgv == InitArgv /\ [][NextArgv]_vars

----------------------------------------------------------------------------
(* Properties of the pipeline, checked under Spec. *)

Finished(r) == runs[r].pc \in {"returned", "thrown"}

Alive(r) == procs[r].cxx = "running" \/ procs[r].cxxfilt = "running"

\* run r returned the text it had collected from the demangler
ReturnedAsm(r) == runs[r].pc = "returned" /\ runs[r].asm

\* C1: a run that was in flight when a later run began on the same instance (a
\* superseded run) has its token cancelled and never returns assembly text; so a
\* superseded run and the run that superseded it never both return assembly text.
C1_SupersededRunFails ==
    \A b \in Runs : \A a \in runs[b].superseded :
        /\ runs[a].cancelled
        /\ ~ReturnedAsm(a)
        /\ ~(ReturnedAsm(a) /\ ReturnedAsm(b))

\* C2: on one instance at most one run has a compiler or demangler process alive.
C2_OnePairAlive ==
    \A a \in Runs, b \in Runs :
        (a # b /\ runs[a].inst = runs[b].inst /\ Alive(a)) => ~Alive(b)

\* C4: a step that delivers the delete signal to instance i leaves every run still in
\* flight on i with a cancelled token, the watcher of i disposed, and i out of the registry.
C4_DeleteCancelsAll ==
    [][\A i \in 1..Len(insts) :
          DeleteSignal(i) =>
              /\ \A r \in Runs : (InFlight(r) /\ runs[r].inst = i) => runs'[r].cancelled
              /\ insts'[i].watcher = "disposed"
              /\ \A u \in DOMAIN compdbs' : compdbs'[u] # i]_vars

C6_FailuresCaught ==
    /\ uncaught = {}
    /\ \A r \in Runs : runs[r].pc = "thrown" => ~Alive(r)
    /\ \A r \in Runs : (procs[r].cxx = "error" \/ procs[r].cxxfilt = "error") =>
            runs[r].pc = "thrown"

\* C7: a run returns assembly text only when both children ended with exit code 0
\* (an error status of either makes it fail), and a run whose children both ended with
\* exit code 0 returns even when there was output on standard error.
C7_ErrorStatusFails ==
    \A r \in Runs :
        /\ runs[r].pc = "returned" => (procs[r].cxx = "exit0" /\ procs[r].cxxfilt = "exit0")
        /\ (procs[r].cxx = "exit0" /\ procs[r].cxxfilt = "exit0" /\ runs[r].sawStderr) =>
                runs[r].pc = "returned"

\* whether the index of instance i has no entry for the source: no key is the source's
\* path relative to the build directory
NoEntry(i, srcUri) ==
    \A k \in DOMAIN insts[i].commands : WorkspaceFolder \o <<Slash>> \o k # srcUri.fsPath

\* C8: get of a source without entry returns the absence and does not throw, and a
\* compile that found no command failed with NotFound.
C8_AbsentIsNotFound ==
    /\ \A i \in 1..Len(insts) : \A s \in Srcs :
            NoEntry(i, s) => (~get(i, s).threw /\ ~get(i, s).found)
    /\ \A r \in Runs : (runs[r].pc # "idle" /\ runs[r].ccommand = 0) =>
            (runs[r].pc = "thrown" /\ runs[r].err = "NotFound")

----------------------------------------------------------------------------
(* Properties of the registry, checked under SpecDb. *)

\* the location CompilationDatabase.for computes for a source in a workspace folder
LocationOf(srcUri) ==
    resolvePath(compilationDirectory, srcUri).val \o <<Slash>> \o CompileCommandsJson

\* the registered instances of a location
RegisteredAt(location) == {compdbs[u] : u \in {v \in DOMAIN compdbs : uris[v] = location}}

\* C3: the registry never holds two instances for one location, and a call of for whose
\* location has a registered instance returns that instance at once, without loading.
C3_OneInstancePerLocation ==
    /\ [](\A u \in DOMAIN compdbs, v \in DOMAIN compdbs : uris[u] = uris[v] => u = v)
    /\ [][\A c \in Calls, s \in Srcs :
             (ForStart(c, s) /\ s.folder.has /\ RegisteredAt(LocationOf(s)) # {}) =>
                 /\ calls'[c].pc = "returned"
                 /\ calls'[c].inst \in RegisteredAt(LocationOf(s))]_vars

----------------------------------------------------------------------------
(* Properties of reloading, checked under SpecReload. *)

\* the key get computes for a source of the workspace folder
KeyOf(srcUri) == RemoveFirst(srcUri.fsPath, WorkspaceFolder \o <<Slash>>)

\* the positions of the entries of a file content that carry key k
EntriesFor(name, k) ==
    {j \in 1..Len(FileContent(name).entries) : FileContent(name).entries[j].file = k}

\* C9: a reload that succeeds replaces the index wholesale: afterwards the lookup of a
\* key finds a new object made from the last entry of the new content with that key, or
\* nothing when the new content has no such entry; and a CompileCommand handed to a
\* caller keeps the value it had then, whatever reloads, deletes and disposes follow.
C9_ReloadReplaces ==
    /\ [](\A h \in handed : heap[h.ref] = h.val)
    /\ [][\A l \in 1..Len(loads) :
             (ReloadDone(l) /\ loads'[l].pc = "done") =>
                 \A s \in Srcs : s.folder.has =>
                     LET i == loads[l].inst
                         name == loads[l].content
                         hits == EntriesFor(name, KeyOf(s))
                         got == lookup(insts'[i].commands, s)
                     IN  IF hits = {} THEN ~got.threw /\ ~got.found
                         ELSE LET j == CHOOSE h \in hits : \A g \in hits : g <= h
                                  entry == FileContent(name).entries[j]
                              IN  /\ got.found
                                  /\ got.ref > Len(heap)
                                  /\ heap'[got.ref].file = KeyOf(s)
                                  /\ heap'[got.ref].directory = entry.directory
                                  /\ heap'[got.ref].arguments =
                                         preprocess(entry).val.arguments]_vars

\* a caller holds a CompileCommand that a later successful reload dropped from the index
C9_Witness ==
    \E h \in handed, l \in 1..Len(loads) :
        /\ loads[l].pc = "done"
        /\ DOMAIN insts[loads[l].inst].commands # {}
        /\ \A k \in DOMAIN insts[loads[l].inst].commands :
              insts[loads[l].inst].commands[k] # h.ref
        /\ heap[h.ref] = h.val

\* C10: a reload that fails (unreadable file, invalid JSON, a value that is not an array
\* of entries) changes neither the index nor any CompileCommand: every lookup returns
\* after the failure what it returned before it.
C10_FailedReloadKeepsIndex ==
    [][\A l \in 1..Len(loads) :
          (ReloadDone(l) /\ loads'[l].pc = "failed") =>
              /\ insts'[loads[l].inst].commands = insts[loads[l].inst].commands
              /\ heap' = heap
              /\ \A s \in Srcs : lookup(insts'[loads[l].inst].commands, s) =
                                   lookup(insts[loads[l].inst].commands, s)]_vars

\* a reload has failed on an instance that still serves a non-empty index
C10_Witness ==
    \E l \in 1..Len(loads) :
        /\ loads[l].pc = "failed"
        /\ loads[l].content \in {"unreadable", "invalidJson", "notArray"}
        /\ DOMAIN insts[loads[l].inst].commands # {}

----------------------------------------------------------------------------
(* Properties of the argument functions, checked under SpecArgv. *)

\* C11: an entry of the file that gives exactly one of command (non-empty) and
\* arguments, the other being absent, is preprocessed without failure, and the arguments
\* stored for it are made from the split command when the command is given and from the
\* given vector otherwise.
C11_EitherFieldLoads ==
    (argv.op = "preprocess" /\ argv.pc # "called") =>
        LET onlyCommand == argv.command.has /\ argv.command.val # <<>> /\ ~argv.arguments.has
            onlyArguments == ~argv.command.has /\ argv.arguments.has
            given == IF onlyCommand THEN splitWhitespace(argv.command.val)
                     ELSE argv.arguments.val
            made == constructCompileCommand(Some(<<>>), Some(given), argv.directory)
        IN  (onlyCommand \/ onlyArguments) =>
                /\ ~argv.threw
                /\ argv.result = SelectSeq(made.val, LAMBDA arg : arg # argv.file)

\* C12: constructCompileCommand with an empty command returns the given vector with its
\* first token rewritten to directory + "/" + token and without every -c, every -g and
\* every -o with the one token that follows it; the other tokens keep their order, and
\* an -o at the end is dropped without failure.
C12_ReconstructFilters ==
    (argv.op = "constructCompileCommand" /\ argv.pc # "called" /\ argv.command.val = <<>>) =>
        LET v == argv.arguments.val
            w == [j \in 1..Len(v) |->
                     IF j = 1 THEN argv.directory \o <<Slash>> \o v[1] ELSE v[j]]
            \* how many -o stand in a row directly before position j
            outs(j) == Cardinality({k \in 1..(j - 1) : \A h \in k..(j - 1) : w[h] = DashO})
            \* position j is the token that follows an -o
            follows(j) == outs(j) % 2 = 1
            kept == {j \in 1..Len(w) : ~follows(j) /\ w[j] \notin {DashO, DashC, DashG}}
            nth(i) == CHOOSE j \in kept : Cardinality({k \in kept : k <= j}) = i
        IN  /\ ~argv.threw
            /\ argv.result = [i \in 1..Cardinality(kept) |-> w[nth(i)]]

\* C13: splitWhitespace splits at the spaces outside quotes, and a quoted segment that
\* contains a space becomes one token without its enclosing quote characters: the
\* command "gcc -O2 'foo bar.cpp' -o out" gives gcc, -O2, foo bar.cpp, -o, out; and in any
\* command whose only special characters are one pair of single quotes around a space,
\* no token holds a quote character.
C13_QuotesStripped ==
    (argv.op = "splitWhitespace" /\ argv.pc = "returned") =>
        LET str == argv.command.val
            quotes == {k \in 1..Len(str) : str[k] = SingleQuote}
            plain == \A k \in 1..Len(str) : str[k] \notin {DoubleQuote, Backslash}
            spaced == \E k \in 1..Len(str) :
                          /\ str[k] = Space
                          /\ \E p \in quotes : p < k
                          /\ \E q \in quotes : k < q
        IN  /\ str = QuotedCommand =>
                  argv.result = <<<<"g","c","c">>, <<"-","O","2">>,
                                  <<"f","o","o"," ","b","a","r",".","c","p","p">>,
                                  DashO, <<"o","u","t">>>>
            /\ (plain /\ Cardinality(quotes) = 2 /\ spaced) =>
                  \A t \in 1..Len(argv.result) : \A k \in 1..Len(argv.result[t]) :
                      argv.result[t][k] # SingleQuote

----------------------------------------------------------------------------
(* Further properties of the pipeline, checked under Spec. *)

\* C14: locating the demangler never fails: whatever the directory of the compiler
\* holds, and also when it cannot be listed, the step yields a demangler path for the
\* compiler (the run goes on to spawn), and that path is the bare name c++filt when the
\* directory holds no matching file.
C14_LocatorNeverFails ==
    [][\A r \in Runs, f \in FsCases :
          LocateDone(r, f) =>
              LET compExe == heap[runs[r].ccommand].arguments[1]
                  cache == insts[runs[r].inst].cxxFiltExeCache
                  cacheAfter == insts'[runs[r].inst].cxxFiltExeCache
              IN  /\ runs'[r].pc = "relay"
                  /\ compExe \in DOMAIN cacheAfter
                  /\ (compExe \notin DOMAIN cache /\ f # "listed") =>
                         cacheAfter[compExe] = cxxfiltExe]_vars

\* C15 as claimed: the step that closes the demangler's input happens only when the
\* compiler's exit with a non-error status has been confirmed.
C15_CloseAfterExit ==
    [][\A r \in Runs :
          (procs[r].stdin # "ended" /\ procs'[r].stdin = "ended") =>
              procs[r].cxx = "exit0"]_vars

\* C15 as amended: the demangler's input is closed in the step in which the compiler's
\* standard output ends, before the compiler's exit is awaited (checkStdErr(cxx) comes
\* next); and the demangler's output is read only after its input was closed and
\* checkStdErr(cxx) has let the run pass.
C15_CloseAtStreamEnd ==
    [][\A r \in Runs :
          /\ (procs[r].stdin # "ended" /\ procs'[r].stdin = "ended") =>
                (runs[r].pc = "relay" /\ runs'[r].pc = "cxxErr")
          /\ (runs[r].pc = "filtOut" /\ runs'[r] # runs[r]) =>
                (procs[r].stdin = "ended" /\ checkStdErr(procs[r].cxx))
          /\ (runs[r].pc # "filtOut" /\ runs'[r].pc = "filtOut") =>
                (procs'[r].stdin = "ended" /\ checkStdErr(procs'[r].cxx))]_vars

\* the demangler's input is closed while the compiler is still running and the run has
\* not yet begun to wait for its exit
C15_Witness ==
    \E r \in Runs :
        /\ procs[r].stdin = "ended"
        /\ procs[r].cxx = "running"
        /\ runs[r].pc = "cxxErr"

----------------------------------------------------------------------------
(* Properties of the scan of splitWhitespace, checked under SpecArgv. *)

\* C16: a backslash takes the special meaning from the one character that follows it
\* and from no other.  A character is escaped when it directly follows a backslash that
\* is not itself escaped.  An escaped quote character leaves the quote context as it
\* is, and a quote character that is not escaped, met outside any quote context or
\* inside the context it opened, changes it.
C16_EscapeOnlyNext ==
    (argv.op = "splitWhitespace" /\ argv.pc = "returned") =>
        LET str == argv.command.val
            \* how many backslashes stand in a row directly before position k
            slashes(k) ==
                Cardinality({j \in 1..(k - 1) : \A h \in j..(k - 1) : str[h] = Backslash})
            escaped(k) == slashes(k) % 2 = 1
        IN  \A k \in 1..Len(str) :
                str[k] \in {SingleQuote, DoubleQuote} =>
                    LET before == scanFlags(str, k - 1).quoteChar
                        after == scanFlags(str, k).quoteChar
                    IN  /\ escaped(k) => after = before
                        /\ (~escaped(k) /\ before \in {"", str[k]}) => after # before

\* C17: inside a quote context the other quote character is literal: it neither closes
\* nor changes the context, which ends only at the next quote character of the kind that
\* opened it; and a space inside a quote context does not end a token.
C17_OpposingQuoteLiteral ==
    (argv.op = "splitWhitespace" /\ argv.pc = "returned") =>
        LET str == argv.command.val
            plain == \A k \in 1..Len(str) : str[k] # Backslash
            other(q) == IF q = SingleQuote THEN DoubleQuote ELSE SingleQuote
        IN  plain =>
                \A k \in 1..Len(str) :
                    LET before == scanFlags(str, k - 1).quoteChar
                        after == scanFlags(str, k).quoteChar
                    IN  /\ (before # "" /\ str[k] = other(before)) => after = before
                        /\ (before # "" /\ str[k] = Space) =>
                              \E t \in 1..Len(argv.result) :
                                  \E n \in 2..Len(argv.result[t]) : argv.result[t][n] = Space

----------------------------------------------------------------------------
(* Properties of the active token, checked under Spec. *)

\* C18: while a run is in progress on an instance and its token has not been cancelled,
\* the field compileCancellationTokenSource of the instance holds that run's token
\* source; so the end of a superseded run leaves the token of its successor in place.
C18_ActiveTokenIsRunning ==
    \A r \in Runs :
        (InFlight(r) /\ ~runs[r].cancelled) =>
            insts[runs[r].inst].compileCancellationTokenSource = r

----------------------------------------------------------------------------
(* Properties of overlapping reloads, checked under SpecReload. *)

\* C19: the result of a reload that started earlier never replaces the result of a
\* reload of the same instance that started later: when a reload succeeds after a
\* later-started reload has already succeeded, the index it installs is made of the same
\* file content, so that once all reloads are done the index reflects what the latest
\* reload read.
C19_NoStaleOverwrite ==
    [][\A l \in 1..Len(loads) :
          (ReloadDone(l) /\ loads'[l].pc = "done") =>
              \A later \in (l + 1)..Len(loads) :
                  (loads[later].inst = loads[l].inst /\ loads[later].pc = "done") =>
                      loads[l].content = loads[later].content]_vars

----------------------------------------------------------------------------
(* Termination of a run, checked under Spec. *)

\* what run r is waiting for when it awaits onExit: the child whose 'exit' it listens to
AwaitedChild(r) == IF runs[r].pc = "cxxExit" THEN "cxx" ELSE "cxxfilt"

\* C20: a run never waits for ever for the exit event of a child that had exited before
\* the run began to wait: whenever a run awaits the exit of a child that has already
\* exited (its 'exit' was emitted when onExit was not yet listening), a step that ends
\* the wait is possible.
C20_ExitIsHeard ==
    \A r \in Runs :
        (runs[r].pc \in {"cxxExit", "filtExit"} /\ procs[r][AwaitedChild(r)] = "unheard") =>
            \/ ENABLED (\E how \in {"exit0", "exitN", "signal"} :
                            ProcExit(r, AwaitedChild(r), how))
            \/ ENABLED ProcError(r, AwaitedChild(r))

====
